---- MODULE Spec2Model ----
(***************************************************************************)
(* Model of the Blender asset-pipeline scripts of infinite-headaches:      *)
(*   scripts/render-animal-portraits.py, scripts/render-farmer-portraits.py*)
(*   scripts/bpy/convert_fbx_to_glb.py, scripts/bpy/export_farmer_models.py*)
(* Python floats are modelled as exact rationals <<n, d>> with d > 0, and  *)
(* the IEEE specials as <<1,0>> (+inf), <<-1,0>> (-inf) and <<0,0>> (NaN). *)
(***************************************************************************)
EXTENDS Integers, Sequences, FiniteSets, TLC

----------------------------------------------------------------------------
(* Float arithmetic *)

Abs(n) == IF n < 0 THEN -n ELSE n

Sign(n) == IF n < 0 THEN -1 ELSE IF n > 0 THEN 1 ELSE 0

RECURSIVE GCD(_, _)
GCD(a, b) == IF b = 0 THEN a ELSE GCD(b, a % b)

Norm(n, d) ==
    IF d = 0 THEN <<Sign(n), 0>>
    ELSE LET g == GCD(Abs(n), Abs(d))
         IN  <<(Sign(d) * n) \div g, Abs(d) \div g>>

R(n) == <<n, 1>>

Inf == <<1, 0>>
NegInf == <<-1, 0>>
NaN == <<0, 0>>

IsNaN(a) == a = NaN
IsInfinite(a) == a[2] = 0 /\ a[1] # 0
IsFinite(a) == a[2] # 0

FNeg(a) == <<-a[1], a[2]>>

FAdd(a, b) ==
    IF IsNaN(a) \/ IsNaN(b) THEN NaN
    ELSE IF IsInfinite(a) /\ IsInfinite(b) THEN (IF a = b THEN a ELSE NaN)
    ELSE IF IsInfinite(a) THEN a
    ELSE IF IsInfinite(b) THEN b
    ELSE Norm(a[1] * b[2] + b[1] * a[2], a[2] * b[2])

FSub(a, b) == FAdd(a, FNeg(b))

FMul(a, b) == Norm(a[1] * b[1], a[2] * b[2])

\* Python raises ZeroDivisionError for b = 0; callers guard it.
FDiv(a, b) == Norm(a[1] * b[2] * Sign(b[1]), a[2] * Abs(b[1]))

FLt(a, b) ==
    IF IsNaN(a) \/ IsNaN(b) THEN FALSE
    ELSE IF IsInfinite(a) /\ IsInfinite(b) THEN a[1] < b[1]
    ELSE a[1] * (IF IsInfinite(a) THEN 1 ELSE b[2]) * (IF b[2] = 0 THEN 0 ELSE 1)
           < b[1] * (IF IsInfinite(b) THEN 1 ELSE a[2]) * (IF a[2] = 0 THEN 0 ELSE 1)

FLe(a, b) == FLt(a, b) \/ (~IsNaN(a) /\ a = b)

\* Python: min(a, b) returns a unless b < a; max(a, b) returns a unless b > a.
FMin(a, b) == IF FLt(b, a) THEN b ELSE a
FMax(a, b) == IF FLt(a, b) THEN b ELSE a

Axes == 1..3

\* A 3-vector as a tuple of its components.
Vec3(f) == <<f[1], f[2], f[3]>>

VAdd(p, q) == Vec3([i \in Axes |-> FAdd(p[i], q[i])])
VScale(s, p) == Vec3([i \in Axes |-> FMul(s, p[i])])

----------------------------------------------------------------------------
(* Host objects.  An object of the scene is a record; the scene and every  *)
(* object list are sequences in the host's iteration order.                *)

P(x, y, z) == <<R(x), R(y), R(z)>>

Origin == P(0, 0, 0)

Obj(name, type, owner, loc, scale, verts, parent, action) ==
    [name |-> name, type |-> type, owner |-> owner, loc |-> loc,
     scale |-> scale, verts |-> verts, parent |-> parent,
     action |-> action, tracks |-> <<>>, mats |-> <<>>, vcols |-> <<>>]

SeqToSet(s) == {s[k] : k \in 1..Len(s)}

\* The transform of a parent q applied after the object's own.
ParentWorld(ps, own) ==
    IF ps = {} THEN own
    ELSE LET q == CHOOSE q \in ps : TRUE
         IN  VAdd(q.loc, VScale(q.scale, own))

\* obj.matrix_world @ v: translation and uniform scale, composed with the
\* parent's transform when the parent is in the scene.
MatrixWorld(obj, sc, v) ==
    ParentWorld({q \in SeqToSet(sc) : q.name = obj.parent /\ obj.parent # ""},
                VAdd(obj.loc, VScale(obj.scale, v)))

RECURSIVE FoldMin(_, _)
FoldMin(fs, k) == IF k = 1 THEN fs[1] ELSE FMin(FoldMin(fs, k - 1), fs[k])

RECURSIVE FoldMax(_, _)
FoldMax(fs, k) == IF k = 1 THEN fs[1] ELSE FMax(FoldMax(fs, k - 1), fs[k])

\* The 8 corners of the box lo..hi.
Corners(lo, hi) ==
    << <<lo[1], lo[2], lo[3]>>, <<lo[1], lo[2], hi[3]>>,
       <<lo[1], hi[2], hi[3]>>, <<lo[1], hi[2], lo[3]>>,
       <<hi[1], lo[2], lo[3]>>, <<hi[1], lo[2], hi[3]>>,
       <<hi[1], hi[2], hi[3]>>, <<hi[1], hi[2], lo[3]>> >>

\* obj.bound_box: the 8 corners of the local axis-aligned box of the
\* object's geometry; the host gives the box -1..1 to an object without
\* geometry.
BoundBox(obj) ==
    LET n == Len(obj.verts)
    IN  IF n = 0 THEN Corners(P(-1, -1, -1), P(1, 1, 1))
        ELSE Corners(Vec3([i \in Axes |-> FoldMin([k \in 1..n |-> obj.verts[k][i]], n)]),
                     Vec3([i \in Axes |-> FoldMax([k \in 1..n |-> obj.verts[k][i]], n)]))

SentinelMin == Vec3([i \in Axes |-> Inf])
SentinelMax == Vec3([i \in Axes |-> NegInf])

\* Accumulate with the max update chained behind the min update by an elif.
RECURSIVE AccumulateElif(_, _, _)
AccumulateElif(pts, mn, mx) ==
    IF pts = <<>> THEN <<mn, mx>>
    ELSE LET w == Head(pts)
         IN  AccumulateElif(Tail(pts),
                 Vec3([i \in Axes |-> FMin(mn[i], w[i])]),
                 Vec3([i \in Axes |-> IF FLt(w[i], mn[i]) THEN mx[i]
                                                          ELSE FMax(mx[i], w[i])]))

\* The inner loops: fold the world-space points into the running min / max.
RECURSIVE Accumulate(_, _, _)
Accumulate(pts, mn, mx) ==
    IF pts = <<>> THEN <<mn, mx>>
    ELSE LET w == Head(pts)
         IN  Accumulate(Tail(pts),
                        Vec3([i \in Axes |-> FMin(mn[i], w[i])]),
                        Vec3([i \in Axes |-> FMax(mx[i], w[i])]))

\* The world-space points get_model_bounds scans for one object: the
\* evaluated vertices of a mesh, else the bounding-box corners.
FarmerPoints(obj, sc) ==
    IF obj.type = "MESH"
    THEN [k \in 1..Len(obj.verts) |-> MatrixWorld(obj, sc, obj.verts[k])]
    ELSE LET bb == BoundBox(obj)
         IN  [k \in 1..8 |-> MatrixWorld(obj, sc, bb[k])]

\* The world-space points center_and_scale_model scans for one object.
AnimalPoints(obj, sc) ==
    LET bb == BoundBox(obj)
    IN  [k \in 1..8 |-> MatrixWorld(obj, sc, bb[k])]

RECURSIVE Concat(_)
Concat(ss) == IF ss = <<>> THEN <<>> ELSE Head(ss) \o Concat(Tail(ss))

AllFarmerPoints(objects, sc) ==
    Concat([k \in 1..Len(objects) |-> FarmerPoints(objects[k], sc)])

AllAnimalPoints(objects, sc) ==
    Concat([k \in 1..Len(objects) |-> AnimalPoints(objects[k], sc)])

\* get_model_bounds with min_co and max_co initialised to zeros.
get_model_bounds_zero(objects, sc) ==
    Accumulate(AllFarmerPoints(objects, sc), Origin, Origin)

get_model_bounds(objects, sc) ==
    Accumulate(AllFarmerPoints(objects, sc), SentinelMin, SentinelMax)

AnimalBounds(objects, sc) ==
    Accumulate(AllAnimalPoints(objects, sc), SentinelMin, SentinelMax)

TARGET_SIZE == <<9, 5>>

\* The guard of line 168 written as size >= 0.
DividesAtZero(size) == FLe(R(0), size)

\* Whether line 168 divides: the guard of its conditional expression.
Divides(size) == FLt(R(0), size)

\* Line 168 with the quotient inverted.
ScaleFactorInverted(target_size, size) ==
    IF Divides(size) THEN FDiv(size, target_size) ELSE R(1)

\* Line 168: target_size / size if size > 0 else 1.  Python raises
\* ZeroDivisionError on a zero divisor, which leaves no scale factor.
ScaleFactor(target_size, size) ==
    IF Divides(size)
    THEN (IF size = R(0) THEN NaN ELSE FDiv(target_size, size))
    ELSE R(1)

\* Lines 162-168 of center_and_scale_model: center, size and scale factor.
CenterAndScale(min_coords, max_coords) ==
    LET center == Vec3([i \in Axes |-> FDiv(FAdd(min_coords[i], max_coords[i]), R(2))])
        size   == FoldMax(Vec3([i \in Axes |-> FSub(max_coords[i], min_coords[i])]), 3)
    IN  [center |-> center, size |-> size, target_size |-> TARGET_SIZE,
         scale_factor |-> ScaleFactor(TARGET_SIZE, size),
         zero_division |-> Divides(size) /\ size = R(0)]

NoFrame == [op |-> "none"]

\* Lines 170-178 of center_and_scale_model: move and rescale every object.
ApplyCenterAndScale(objects, f) ==
    [k \in 1..Len(objects) |->
        [objects[k] EXCEPT
           !.loc = Vec3([i \in Axes |-> FSub(objects[k].loc[i], f.center[i])]),
           !.scale = FMul(objects[k].scale, f.scale_factor)]]

\* The bounds pair handed to lines 162-168.
FrameOf(b) == CenterAndScale(b[1], b[2])

\* center_and_scale_model(objects): the moved and rescaled objects.
center_and_scale_model(objects, sc) ==
    IF objects = <<>> THEN objects
    ELSE ApplyCenterAndScale(objects, FrameOf(AnimalBounds(objects, sc)))

----------------------------------------------------------------------------
(* The batch scripts *)

VARIABLES
    script,     \* which script this run executes
    fs,         \* the file system: per asset, what its source file holds
    pc,         \* "start", "loop", "summary", "done" or "aborted"
    idx,        \* position of the batch loop: the next asset
    scene,      \* bpy.data.objects, the process-wide scene
    dirExists,  \* whether the output directory exists
    materials,  \* bpy.data.materials, each with its node tree
    results,    \* the results list of the portrait scripts
    written,    \* the output files written, in order
    log,        \* the ERROR / Warning lines printed, in order
    moments,    \* the scene's owners observed at each import and output
    bounds,     \* the last bounds pair computed
    frame       \* the last framing values computed

vars == <<script, fs, pc, idx, scene, dirExists, materials, results, written,
          log, moments, bounds, frame>>

NUM_ANIMALS == 5
NUM_FARMERS == 2
NUM_NAME_MAP == 5
NUM_CHARACTERS == 2
NUM_ANIMATIONS == 2

NumAssets(sc) ==
    CASE sc = "animal"  -> NUM_ANIMALS
      [] sc = "farmer"  -> NUM_FARMERS
      [] sc = "convert" -> NUM_NAME_MAP
      [] sc = "export"  -> NUM_CHARACTERS
      [] OTHER          -> 0

NoBounds == <<>>

\* The objects of the host's startup scene.
StartupScene ==
    << [Obj("Cube", "MESH", 0, Origin, R(1), <<P(-1, -1, -1), P(1, 1, 1)>>, "", FALSE)
           EXCEPT !.mats = <<"Material">>],
       Obj("Light", "LIGHT", 0, P(4, 1, 6), R(1), <<>>, "", FALSE),
       Obj("Camera", "CAMERA", 0, P(7, -7, 5), R(1), <<>>, "", FALSE) >>

Owners(sc) == {sc[k].owner : k \in 1..Len(sc)}

\* An output file: the asset, the objects it holds, whether the output
\* directory existed when it was written, and the NLA tracks it carries.
Output(asset, objs, dir, tracks) ==
    [asset |-> asset, objs |-> {o.name : o \in objs}, dir |-> dir, tracks |-> tracks]

Moment(asset, what, sc) == [asset |-> asset, what |-> what, owners |-> Owners(sc)]

LogLine(asset, level) == [asset |-> asset, level |-> level]

\* clear_scene that deletes nothing.
clear_scene_noop(sc) == sc

\* bpy.ops.object.select_all(action='SELECT'); bpy.ops.object.delete()
clear_scene(sc) == <<>>

\* Replace in the scene every object that has a namesake in objs.
Update(sc, objs) ==
    [k \in 1..Len(sc) |->
        IF \E j \in 1..Len(objs) : objs[j].name = sc[k].name
        THEN objs[CHOOSE j \in 1..Len(objs) : objs[j].name = sc[k].name]
        ELSE sc[k]]

\* The loop of clear_scene over bpy.data.materials: the materials no object
\* of the scene uses are removed.
remove_orphans(mats, sc) ==
    SelectSeq(mats, LAMBDA m : \E k \in 1..Len(sc) :
                                  \E j \in 1..Len(sc[k].mats) : sc[k].mats[j] = m.name)

IsMesh(o) == o.type = "MESH"
IsArmature(o) == o.type = "ARMATURE"

----------------------------------------------------------------------------
(* scripts/render-animal-portraits.py *)

AnimalKinds == {"absent", "nomesh", "point", "mesh2"}

\* What bpy.ops.import_scene.gltf brings in for a model file of each kind.
AnimalFile(kind, a) ==
    CASE kind = "nomesh" ->
           << Obj("Root", "EMPTY", a, Origin, R(1), <<>>, "", FALSE) >>
      [] kind = "point" ->
           << Obj("Body", "MESH", a, P(0, 0, 1), R(1), <<P(2, 1, 0)>>, "", FALSE) >>
      [] kind = "mesh2" ->
           << Obj("Root", "EMPTY", a, Origin, R(1), <<>>, "", FALSE),
              Obj("Body", "MESH", a, P(0, 0, 1), R(1),
                  <<P(-1, 0, 0), P(1, 3, 1)>>, "", FALSE),
              Obj("Head", "MESH", a, P(0, 2, 2), R(2),
                  <<P(0, 0, 0), P(1, 1, 1)>>, "", FALSE) >>
      [] OTHER -> <<>>

AnimalLights(a) ==
    << Obj("KeyLight", "LIGHT", a, P(2, -3, 2), R(1), <<>>, "", FALSE),
       Obj("FillLight", "LIGHT", a, P(-2, -2, 1), R(1), <<>>, "", FALSE),
       Obj("RimLight", "LIGHT", a, P(0, 3, 2), R(1), <<>>, "", FALSE) >>

AnimalCamera(a) ==
    << Obj("PortraitCamera", "CAMERA", a, <<R(0), R(-5), <<1, 2>>>>, R(1), <<>>, "", FALSE) >>

\* load_glb: the imported objects that are meshes.
load_glb(imported) == SelectSeq(imported, IsMesh)

\* The tail of render_portrait once the meshes are loaded: center and
\* scale, then render to the output path.
RenderLoaded(a, st, s1, b, s3) ==
    [st EXCEPT !.scene = s3,
               !.moments = @ \cup {Moment(a, "import", s1), Moment(a, "output", s3)},
               !.bounds = b,
               !.frame = [op |-> "center_and_scale_model"] @@ FrameOf(b),
               !.written = Append(@, Output(a, SeqToSet(s3), st.dirExists, <<>>)),
               !.ret = TRUE]

\* render_portrait once the model file is known to exist: import, check for
\* meshes, frame and render.
RenderImported(a, st, s1, s2, objects) ==
    IF objects = <<>>
    THEN [st EXCEPT !.scene = s2,
                    !.moments = @ \cup {Moment(a, "import", s1)},
                    !.log = Append(@, LogLine(a, "ERROR")),
                    !.ret = FALSE]
    ELSE RenderLoaded(a, st, s1, AnimalBounds(objects, s2),
                      Update(s2, center_and_scale_model(objects, s2)))

\* render_portrait(model_name, output_filename) for asset a: the state it
\* leaves and the value it returns.
render_portrait(a, st) ==
    LET s1 == clear_scene(st.scene) \o AnimalLights(a) \o AnimalCamera(a)
        imported == AnimalFile(fs[a], a)
        cleared == [st EXCEPT !.materials = remove_orphans(@, clear_scene(st.scene))]
    IN  IF fs[a] = "absent"
        THEN [cleared EXCEPT !.scene = s1,
                             !.log = Append(@, LogLine(a, "ERROR")),
                             !.ret = FALSE]
        ELSE RenderImported(a, cleared, s1, s1 \o imported, load_glb(imported))

\* The mutable state a per-asset handler works on.
State ==
    [scene |-> scene, log |-> log, moments |-> moments, bounds |-> bounds,
     frame |-> frame, written |-> written, dirExists |-> dirExists,
     materials |-> materials, ret |-> FALSE, raised |-> FALSE,
     selected |-> <<>>]

Commit(st) ==
    /\ scene' = st.scene
    /\ log' = st.log
    /\ moments' = st.moments
    /\ bounds' = st.bounds
    /\ frame' = st.frame
    /\ written' = st.written
    /\ materials' = st.materials

\* The result recorded only for a success.
CommitResultIfOk(st) ==
    /\ Commit(st)
    /\ results' = IF st.ret THEN Append(results, <<idx, st.ret>>) ELSE results

\* results.append((name, success)) after the handler returned.
CommitResult(st) ==
    /\ Commit(st)
    /\ results' = Append(results, <<idx, st.ret>>)

\* The start of the script without the os.makedirs call.
MakeOutputDirSkipped ==
    /\ pc = "start"
    /\ pc' = "loop"
    /\ UNCHANGED <<script, fs, idx, scene, dirExists, materials, results,
                   written, log, moments, bounds, frame>>

\* os.makedirs(OUTPUT_DIR, exist_ok=True), then the render settings.
MakeOutputDir ==
    /\ pc = "start"
    /\ dirExists' = TRUE
    /\ pc' = "loop"
    /\ UNCHANGED <<script, fs, idx, scene, materials, results, written, log,
                   moments, bounds, frame>>

\* One iteration of main's loop over ANIMALS.
RenderPortrait ==
    /\ script = "animal"
    /\ pc = "loop"
    /\ idx <= NumAssets(script)
    /\ CommitResult(render_portrait(idx, State))
    /\ idx' = idx + 1
    /\ UNCHANGED <<script, fs, pc, dirExists>>

\* The summary of main: the count of successful results.
RECURSIVE CountOk(_)
CountOk(rs) ==
    IF rs = <<>> THEN 0
    ELSE (IF Head(rs)[2] THEN 1 ELSE 0) + CountOk(Tail(rs))

----------------------------------------------------------------------------
(* scripts/render-farmer-portraits.py *)

FarmerKinds == {"absent", "armonly", "rigged", "loose", "noarm", "noverts"}

\* What bpy.ops.import_scene.gltf brings in for a farmer GLB of each kind.
FarmerFile(kind, a) ==
    LET arm  == Obj("Armature", "ARMATURE", a, P(1, 0, 0), R(1), <<>>, "", FALSE)
        body == Obj("Body", "MESH", a, Origin, R(1),
                    <<P(-1, 0, 0), P(3, 1, 4)>>, "Armature", FALSE)
        hat  == Obj("Hat", "MESH", a, P(0, 0, 4), R(1),
                    <<P(-1, 0, 0), P(1, 1, 1)>>, "", FALSE)
        husk == Obj("Body", "MESH", a, Origin, R(1), <<>>, "Armature", FALSE)
    IN  CASE kind = "armonly" -> <<arm>>
          [] kind = "rigged"  -> <<arm, body>>
          [] kind = "loose"   -> <<arm, body, hat>>
          [] kind = "noarm"   -> <<[body EXCEPT !.parent = ""], hat>>
          [] kind = "noverts" -> <<arm, husk>>
          [] OTHER -> <<>>

FarmerLights(a) ==
    << Obj("Key", "LIGHT", a, <<<<3, 2>>, R(-3), <<5, 2>>>>, R(1), <<>>, "", FALSE),
       Obj("Fill", "LIGHT", a, <<<<-3, 2>>, <<-5, 2>>, <<3, 2>>>>, R(1), <<>>, "", FALSE),
       Obj("Rim", "LIGHT", a, <<R(0), R(3), <<5, 2>>>>, R(1), <<>>, "", FALSE) >>

\* setup_camera(center_y, center_z): the camera object it links.
FarmerCamera(a, center_z) ==
    << Obj("PortraitCam", "CAMERA", a, <<R(0), R(-4), center_z>>, R(1), <<>>, "", FALSE) >>

NoObject == [name |-> "", type |-> "NONE", tracks |-> <<>>]

\* load_farmer_glb: (armature, meshes) among the selected (imported) objects
\* of the scene sc.
load_farmer_glb(selected, sc) ==
    LET arms == SelectSeq(selected, IsArmature)
        armature == IF arms = <<>> THEN NoObject ELSE arms[Len(arms)]
        meshes == SelectSeq(selected, IsMesh)
        IsNewChild(o) == /\ o.type = "MESH"
                         /\ o.parent = armature.name
                         /\ \A k \in 1..Len(meshes) : meshes[k].name # o.name
        children == IF armature.type = "NONE" THEN <<>> ELSE SelectSeq(sc, IsNewChild)
    IN  [armature |-> armature, meshes |-> meshes \o children]

PORTRAIT_ANCHOR == <<3, 4>>

\* Lines 279-287 of render_farmer: the framing values.
FarmerFraming(min_co, max_co) ==
    LET height == FSub(max_co[3], min_co[3])
    IN  [op |-> "render_farmer",
         height |-> height,
         center_x |-> FDiv(FAdd(min_co[1], max_co[1]), R(2)),
         center_z |-> FDiv(FAdd(min_co[3], max_co[3]), R(2)),
         portrait_center_z |-> FAdd(min_co[3], FMul(height, PORTRAIT_ANCHOR))]

\* Lines 290-295 of render_farmer: center the model on X under the camera.
CenterOnX(armature, meshes, center_x) ==
    IF armature.type # "NONE"
    THEN << [armature EXCEPT !.loc[1] = FSub(@, center_x)] >>
    ELSE [k \in 1..Len(meshes) |-> [meshes[k] EXCEPT !.loc[1] = FSub(@, center_x)]]

\* render_farmer(farmer_config) for asset a.
render_farmer(a, st) ==
    LET s1 == clear_scene(st.scene) \o FarmerLights(a)
        imported == FarmerFile(fs[a], a)
        s2 == s1 \o imported
        am == load_farmer_glb(imported, s2)
        b  == get_model_bounds(am.meshes, s2)
        f  == FarmerFraming(b[1], b[2])
        s3 == s2 \o FarmerCamera(a, f.portrait_center_z)
        s4 == Update(s3, CenterOnX(am.armature, am.meshes, f.center_x))
        cleared == remove_orphans(st.materials, clear_scene(st.scene))
    IN  IF fs[a] = "absent"
        THEN [st EXCEPT !.log = Append(@, LogLine(a, "ERROR")),
                        !.ret = FALSE]
        ELSE IF am.meshes = <<>>
        THEN [st EXCEPT !.scene = s2,
                        !.materials = cleared,
                        !.moments = @ \cup {Moment(a, "import", s1)},
                        !.log = Append(@, LogLine(a, "ERROR")),
                        !.ret = FALSE]
        ELSE [st EXCEPT !.scene = s4,
                        !.materials = cleared,
                        !.moments = @ \cup {Moment(a, "import", s1),
                                            Moment(a, "output", s4)},
                        !.bounds = b,
                        !.frame = f,
                        !.written = Append(@, Output(a, SeqToSet(s4), st.dirExists, <<>>)),
                        !.ret = TRUE]

\* One iteration of main's loop over FARMERS.
RenderFarmer ==
    /\ script = "farmer"
    /\ pc = "loop"
    /\ idx <= NumAssets(script)
    /\ CommitResult(render_farmer(idx, State))
    /\ idx' = idx + 1
    /\ UNCHANGED <<script, fs, pc, dirExists>>

----------------------------------------------------------------------------
(* Material node trees *)

\* A material without a node tree.
NoTree(name) ==
    [name |-> name, tree |-> FALSE, nodes |-> <<>>, links |-> {}, next |-> 1]

\* nodes.new(type=...): the new node comes last and gets a fresh identity.
nodes_new(mat, type, attr) ==
    [mat EXCEPT !.nodes = Append(@, [id |-> mat.next, type |-> type, attr |-> attr]),
                !.next = @ + 1]

\* links.new(from.outputs[out], to.inputs[in]): an input socket holds one
\* link, the new link replaces the one it had.
links_new(mat, from, out, to, in) ==
    [mat EXCEPT !.links =
        {l \in @ : ~(l.to = to /\ l.in = in)}
            \cup {[from |-> from, out |-> out, to |-> to, in |-> in]}]

\* The nodes test(n) keeps; the links of a removed node go with it.
KeepNodes(mat, kept) ==
    [mat EXCEPT !.nodes = kept,
                !.links = {l \in @ : /\ \E k \in 1..Len(kept) : kept[k].id = l.from
                                      /\ \E j \in 1..Len(kept) : kept[j].id = l.to}]

\* nodes.clear()
nodes_clear(mat) == KeepNodes(mat, <<>>)

\* mat.use_nodes = True: a material that has no node tree yet gets the
\* default one, a Material Output fed by a Principled BSDF.
use_nodes(mat) ==
    IF mat.tree THEN mat
    ELSE links_new(
             nodes_new(nodes_new([mat EXCEPT !.tree = TRUE],
                                 "OUTPUT_MATERIAL", ""),
                       "BSDF_PRINCIPLED", ""),
             mat.next + 1, "BSDF", mat.next, "Surface")

IsOutput(n) == n.type = "OUTPUT_MATERIAL"

\* The loop of lines 66-68 removing nothing.
RemoveNonOutputNone(mat) == mat

\* Lines 66-68: remove every node that is not a Material Output.
RemoveNonOutput(mat) == KeepNodes(mat, SelectSeq(mat.nodes, IsOutput))

\* Lines 61-87 of setup_vertex_colors_material for one material and the
\* active colour layer of the mesh.
VertexColorsMaterial(mat, layer) ==
    LET m2   == RemoveNonOutput(use_nodes(mat))
        outs == SelectSeq(m2.nodes, IsOutput)
        m3   == IF outs = <<>> THEN nodes_new(m2, "OUTPUT_MATERIAL", "") ELSE m2
        node_output     == IF outs = <<>> THEN m2.next ELSE outs[1].id
        node_principled == m3.next
        node_attribute  == m3.next + 1
        m5   == nodes_new(nodes_new(m3, "BSDF_PRINCIPLED", ""), "VERTEX_COLOR", layer)
    IN  links_new(links_new(m5, node_attribute, "Color", node_principled, "Base Color"),
                  node_principled, "BSDF", node_output, "Surface")

\* setup_material_vertex_color(mat, mesh_obj)
setup_material_vertex_color(mat) ==
    LET m1 == nodes_clear(use_nodes(mat))
        bsdf      == m1.next
        output    == m1.next + 1
        attr_node == m1.next + 2
        m2 == links_new(nodes_new(nodes_new(m1, "BSDF_PRINCIPLED", ""),
                                  "OUTPUT_MATERIAL", ""),
                        bsdf, "BSDF", output, "Surface")
    IN  links_new(nodes_new(m2, "ATTRIBUTE", "Col"),
                  attr_node, "Color", bsdf, "Base Color")

\* The material the FBX importer builds: the default tree and one image
\* texture node per textured input of the Principled BSDF.
RECURSIVE WithTextures(_, _, _)
WithTextures(mat, sockets, k) ==
    IF k > Len(sockets) THEN mat
    ELSE WithTextures(links_new(nodes_new(mat, "TEX_IMAGE", ""),
                                mat.next, "Color", 2, sockets[k]),
                      sockets, k + 1)

ImportedMaterial(name, sockets) == WithTextures(use_nodes(NoTree(name)), sockets, 1)

\* The material of the host's startup scene.
StartupMaterials == <<use_nodes(NoTree("Material"))>>

\* The material called name among bpy.data.materials.
Material(mats, name) == mats[CHOOSE k \in 1..Len(mats) : mats[k].name = name]

SetMaterial(mats, mat) ==
    [k \in 1..Len(mats) |-> IF mats[k].name = mat.name THEN mat ELSE mats[k]]

\* setup_vertex_colors_material() from the k-th selected object on: every
\* mesh with vertex colours gets its first material, or a new one, set up.
\* The result is the scene and the materials.
RECURSIVE setup_vertex_colors_material(_, _, _)
setup_vertex_colors_material(k, sc, mats) ==
    IF k > Len(sc) THEN [scene |-> sc, materials |-> mats]
    ELSE IF ~(sc[k].type = "MESH" /\ sc[k].vcols # <<>>)
    THEN setup_vertex_colors_material(k + 1, sc, mats)
    ELSE IF Len(sc[k].mats) > 0
    THEN setup_vertex_colors_material(k + 1, sc,
             SetMaterial(mats, VertexColorsMaterial(Material(mats, sc[k].mats[1]),
                                                    sc[k].vcols[1])))
    ELSE setup_vertex_colors_material(k + 1,
             [sc EXCEPT ![k].mats = <<"VertexColorMat">>],
             Append(mats, VertexColorsMaterial(NoTree("VertexColorMat"),
                                               sc[k].vcols[1])))

\* Lines 85-86 of process_character from the k-th material slot on.
RECURSIVE SetupMaterials(_, _, _)
SetupMaterials(k, slots, mats) ==
    IF k > Len(slots) THEN mats
    ELSE SetupMaterials(k + 1, slots,
             SetMaterial(mats, setup_material_vertex_color(Material(mats, slots[k]))))

----------------------------------------------------------------------------
(* scripts/bpy/convert_fbx_to_glb.py *)

ConvertKinds == {"absent", "colored", "plain", "rig"}

\* What bpy.ops.import_scene.fbx brings in for an animal FBX of each kind.
ConvertFile(kind, a) ==
    LET arm  == Obj("Armature", "ARMATURE", a, Origin, R(1), <<>>, "", TRUE)
        body == Obj("Body", "MESH", a, Origin, R(1),
                    <<P(-1, 0, 0), P(1, 1, 1)>>, "", FALSE)
    IN  CASE kind = "colored" ->
                 <<[body EXCEPT !.mats = <<"Fur">>, !.vcols = <<"Col">>]>>
          [] kind = "plain"   ->
                 <<[body EXCEPT !.name = "Plain", !.mats = <<"Fur">>]>>
          [] kind = "rig"     ->
                 <<arm, [body EXCEPT !.parent = "Armature", !.vcols = <<"Color">>]>>
          [] OTHER -> <<>>

\* The materials the import of an animal FBX of each kind adds.
ConvertMaterials(kind) ==
    CASE kind = "colored" -> <<ImportedMaterial("Fur", <<"Base Color">>)>>
      [] kind = "plain"   -> <<ImportedMaterial("Fur", <<"Base Color", "Normal">>)>>
      [] OTHER -> <<>>

\* The loop of reset_scene over bpy.data.materials.
reset_materials(mats) == <<>>

\* reset_scene(): select all and delete, then drop the data blocks.
reset_scene(sc) == <<>>

\* The body of the conversion loop for asset a.
ConvertOne(a, st) ==
    LET s1 == reset_scene(st.scene)
        s2 == s1 \o ConvertFile(fs[a], a)
        m2 == reset_materials(st.materials) \o ConvertMaterials(fs[a])
        set == setup_vertex_colors_material(1, s2, m2)
    IN  IF fs[a] = "absent"
        THEN [st EXCEPT !.log = Append(@, LogLine(a, "Warning")),
                        !.ret = FALSE]
        ELSE [st EXCEPT !.scene = set.scene,
                        !.materials = set.materials,
                        !.moments = @ \cup {Moment(a, "import", s1),
                                            Moment(a, "output", set.scene)},
                        !.written = Append(@, Output(a, SeqToSet(set.scene),
                                                     st.dirExists, <<>>)),
                        !.ret = TRUE]

\* One iteration of the loop over name_map.
ConvertAsset ==
    /\ script = "convert"
    /\ pc = "loop"
    /\ idx <= NumAssets(script)
    /\ Commit(ConvertOne(idx, State))
    /\ idx' = idx + 1
    /\ UNCHANGED <<script, fs, pc, dirExists, results>>

----------------------------------------------------------------------------
(* scripts/bpy/export_farmer_models.py *)

FbxKinds == {"absent", "ok", "noarm", "othermesh"}
ClipKinds == {"invalid", "anim", "noaction", "empty", "skin"}

ANIM_NAMES == <<"idle", "walk">>

\* config['mesh_name'] of character a.
MeshName(a) == IF a = 1 THEN "Farmer_George" ELSE "Farmer_Martha"

\* config['mesh_name'] in obj.name
NameContains(name, sub) ==
    \/ name = sub
    \/ <<name, sub>> \in {<<"Farmer_George.001", "Farmer_George">>,
                          <<"Farmer_Martha.001", "Farmer_Martha">>}

\* What the character FBX of each kind holds.
FbxFile(kind, a) ==
    LET arm  == Obj("Armature", "ARMATURE", a, P(0, 0, 1), R(1), <<>>, "", FALSE)
        body == [Obj(MeshName(a), "MESH", a, Origin, R(1),
                     <<P(-1, 0, 0), P(1, 1, 2)>>, "Armature", FALSE)
                    EXCEPT !.mats = <<"Skin", "Cloth">>, !.vcols = <<"Color">>]
    IN  CASE kind = "ok"        -> <<arm, body>>
          [] kind = "noarm"     -> <<[body EXCEPT !.parent = ""]>>
          [] kind = "othermesh" -> <<arm, [body EXCEPT !.name = "Body"]>>
          [] OTHER -> <<>>

\* The materials the import of the character FBX adds.
FbxMaterials(kind) ==
    IF kind \in {"ok", "noarm", "othermesh"}
    THEN <<ImportedMaterial("Skin", <<"Base Color">>), ImportedMaterial("Cloth", <<>>)>>
    ELSE <<>>

\* Lines 80-82: without a colour layer called "Col" the first layer, if
\* there is one, is renamed "Col".
RenameVertexColors(sc, meshName) ==
    [k \in 1..Len(sc) |->
        IF sc[k].name = meshName /\ sc[k].vcols # <<>>
              /\ \A j \in 1..Len(sc[k].vcols) : sc[k].vcols[j] # "Col"
        THEN [sc[k] EXCEPT !.vcols[1] = "Col"]
        ELSE sc[k]]

ClipArmName(k) == IF k = 1 THEN "Armature.001" ELSE "Armature.002"
ClipMeshName(k) == IF k = 1 THEN "Skin.001" ELSE "Skin.002"

\* What the animation FBX of each kind holds, in selection order.
ClipFile(kind, a, k) ==
    LET arm == Obj(ClipArmName(k), "ARMATURE", a, Origin, R(1), <<>>, "", TRUE)
        skin == Obj(ClipMeshName(k), "MESH", a, Origin, R(1),
                    <<P(-1, 0, 0), P(1, 1, 2)>>, ClipArmName(k), FALSE)
    IN  CASE kind = "anim"     -> <<arm>>
          [] kind = "noaction" -> <<[arm EXCEPT !.action = FALSE]>>
          [] kind = "skin"     -> <<arm, skin>>
          [] OTHER -> <<>>

\* Whether bpy.ops.import_scene.fbx raises: the importer reports an error
\* for a file it cannot open, which the operator call raises.
ImportRaises(kind) == kind \in {"absent", "invalid"}

\* The object a scan of the hits leaves assigned: the last one, or None.
Last(hits) == IF hits = <<>> THEN NoObject ELSE hits[Len(hits)]

RemoveNamed(sc, name) == SelectSeq(sc, LAMBDA o : o.name # name)

\* nla_tracks.new() putting the new track in front of the earlier ones.
AddTrackFirst(sc, armName, anim) ==
    [k \in 1..Len(sc) |->
        IF sc[k].name = armName
        THEN [sc[k] EXCEPT !.tracks = <<anim>> \o @]
        ELSE sc[k]]

\* Lines 100-102: armature.animation_data.nla_tracks.new() named after the
\* clip; the new track comes after the earlier ones.
AddTrack(sc, armName, anim) ==
    [k \in 1..Len(sc) |->
        IF sc[k].name = armName
        THEN [sc[k] EXCEPT !.tracks = Append(@, anim)]
        ELSE sc[k]]

Names(objs) == [k \in 1..Len(objs) |-> objs[k].name]

\* An importer that adds the objects it brings in to the selection.
SelectedAfterImportKept(prev, imported) == prev \o Names(imported)

\* bpy.context.selected_objects after bpy.ops.import_scene.fbx: the operator
\* deselects every object and selects the objects it brings in.
SelectedAfterImport(prev, imported) == Names(imported)

\* The pass of the animation loop without its try / except.
ImportClipUncaught(a, k, armName, st) ==
    LET imported == ClipFile(fs[a].clips[k], a, k)
        s1 == st.scene \o imported
    IN  IF st.raised THEN st
        ELSE IF ImportRaises(fs[a].clips[k])
        THEN [st EXCEPT !.raised = TRUE]
        ELSE IF imported = <<>>
        THEN [st EXCEPT !.scene = s1, !.raised = TRUE]
        ELSE [st EXCEPT !.scene =
                 RemoveNamed(IF imported[1].action
                             THEN AddTrack(s1, armName, ANIM_NAMES[k]) ELSE s1,
                             imported[1].name)]

\* One pass of the animation loop (lines 92-105) for clip k: try the import,
\* take selected_objects[0], add the track, remove the imported object.
ImportClip(a, k, armName, st) ==
    LET kind == fs[a].clips[k]
        imported == ClipFile(kind, a, k)
        s1 == st.scene \o imported
        selected == SelectedAfterImport(st.selected, imported)
        imported_armature == Last(SelectSeq(s1, LAMBDA o : o.name = selected[1]))
        s2 == IF imported_armature.action
              THEN AddTrack(s1, armName, ANIM_NAMES[k]) ELSE s1
        s3 == RemoveNamed(s2, imported_armature.name)
    IN  IF ImportRaises(kind)
        THEN [st EXCEPT !.log = Append(@, LogLine(a, "ERROR"))]
        ELSE IF selected = <<>>
        THEN [st EXCEPT !.scene = s1, !.selected = selected,
                        !.log = Append(@, LogLine(a, "ERROR"))]
        ELSE [st EXCEPT !.scene = s3,
                        !.selected = SelectSeq(selected,
                                         LAMBDA n : n # imported_armature.name)]

RECURSIVE AnimationLoop(_, _, _, _)
AnimationLoop(a, k, armName, st) ==
    IF k > NUM_ANIMATIONS THEN st
    ELSE AnimationLoop(a, k + 1, armName, ImportClip(a, k, armName, st))

\* bpy.ops.object.transform_apply on the armature: its location, rotation
\* and scale are baked into its data.
TransformApply(sc, armName) ==
    [k \in 1..Len(sc) |->
        IF sc[k].name = armName
        THEN [sc[k] EXCEPT !.loc = Origin, !.scale = R(1)]
        ELSE sc[k]]

\* Line 72 with "and" between the two tests.
MissingBoth(armature, mesh_obj) ==
    armature.type = "NONE" /\ mesh_obj.type = "NONE"

\* Line 72: not armature or not mesh_obj.
MissingRequired(armature, mesh_obj) ==
    armature.type = "NONE" \/ mesh_obj.type = "NONE"

\* obj is still an object of the scene (its reference is valid).
Exists(sc, obj) == \E k \in 1..Len(sc) : sc[k].name = obj.name

\* Lines 107-128 of process_character: select the armature and the mesh and
\* export the selection, unless an exception left the animation loop;
\* select_set on a removed object raises.
ExportCharacter(a, st2, armature, mesh_obj) ==
    IF st2.raised THEN st2
    ELSE IF ~Exists(st2.scene, armature) \/ ~Exists(st2.scene, mesh_obj)
    THEN [st2 EXCEPT !.raised = TRUE]
    ELSE [st2 EXCEPT
            !.moments = @ \cup {Moment(a, "output", st2.scene)},
            !.written = Append(@,
                Output(a, {o \in SeqToSet(st2.scene) :
                              o.name = armature.name \/ o.name = mesh_obj.name},
                       st2.dirExists,
                       Last(SelectSeq(st2.scene, LAMBDA o : o.name = armature.name)).tracks)),
            !.ret = TRUE]

\* process_character once the character FBX is imported into s1.
ProcessImported(a, st, s0, s1, armature, mesh_obj) ==
    IF MissingRequired(armature, mesh_obj)
    THEN [st EXCEPT !.scene = s1,
                    !.moments = @ \cup {Moment(a, "import", s0)},
                    !.log = Append(@, LogLine(a, "ERROR")),
                    !.ret = FALSE]
    ELSE ExportCharacter(a,
             AnimationLoop(a, 1, armature.name,
                 [st EXCEPT !.scene = RenameVertexColors(
                                          TransformApply(s1, armature.name),
                                          mesh_obj.name),
                            !.materials = SetupMaterials(1, mesh_obj.mats, @),
                            !.selected = SelectedAfterImport(<<>>, s1),
                            !.moments = @ \cup {Moment(a, "import", s0)}]),
             armature, mesh_obj)

\* bpy.ops.wm.read_factory_settings(use_empty=True)
read_factory_settings(sc) == <<>>

\* process_character(char_key, config) for character a.
process_character(a, st) ==
    LET s0 == read_factory_settings(st.scene)
        s1 == s0 \o FbxFile(fs[a].fbx, a)
    IN  IF ImportRaises(fs[a].fbx)
        THEN [st EXCEPT !.scene = s0, !.materials = <<>>, !.raised = TRUE]
        ELSE ProcessImported(a, [st EXCEPT !.materials = FbxMaterials(fs[a].fbx)],
                 s0, s1,
                 Last(SelectSeq(s1, IsArmature)),
                 Last(SelectSeq(s1, LAMBDA o : o.type = "MESH"
                                       /\ NameContains(o.name, MeshName(a)))))

CommitOrAbort(st) ==
    /\ Commit(st)
    /\ pc' = IF st.raised THEN "aborted" ELSE pc

\* One iteration of the module-level loop over CHARACTERS; an exception that
\* process_character lets escape ends the script.
ProcessCharacter ==
    /\ script = "export"
    /\ pc = "loop"
    /\ idx <= NumAssets(script)
    /\ CommitOrAbort(process_character(idx, State))
    /\ idx' = idx + 1
    /\ UNCHANGED <<script, fs, dirExists, results>>

----------------------------------------------------------------------------
(* The run *)

\* The loop is over: the portrait scripts print their summary.
Summary ==
    /\ pc = "loop"
    /\ idx > NumAssets(script)
    /\ pc' = IF script \in {"animal", "farmer"} THEN "summary" ELSE "done"
    /\ UNCHANGED <<script, fs, idx, scene, dirExists, materials, results,
                   written, log, moments, bounds, frame>>

Scripts == {"animal", "farmer", "convert", "export"}

FileSystems(sc) ==
    CASE sc = "animal"  -> [1..NUM_ANIMALS -> AnimalKinds]
      [] sc = "farmer"  -> [1..NUM_FARMERS -> FarmerKinds]
      [] sc = "convert" -> [1..NUM_NAME_MAP -> ConvertKinds]
      [] sc = "export"  -> [1..NUM_CHARACTERS ->
                              [fbx : FbxKinds, clips : [1..NUM_ANIMATIONS -> ClipKinds]]]

Init ==
    /\ script \in Scripts
    /\ fs \in FileSystems(script)
    /\ pc = "start"
    /\ idx = 1
    /\ scene = IF script = "export" THEN <<>> ELSE StartupScene
    /\ dirExists = FALSE
    /\ materials = IF script = "export" THEN <<>> ELSE StartupMaterials
    /\ results = <<>>
    /\ written = <<>>
    /\ log = <<>>
    /\ moments = {}
    /\ bounds = NoBounds
    /\ frame = NoFrame

Next ==
    \/ MakeOutputDir
    \/ RenderPortrait
    \/ RenderFarmer
    \/ ConvertAsset
    \/ ProcessCharacter
    \/ Summary

Spec == Init /\ [][Next]_vars

----------------------------------------------------------------------------
(* The framing functions on their own: get_model_bounds and                *)
(* center_and_scale_model applied to drawn object lists.                   *)

MaxObjs == 2
MaxVerts == 2
MaxCalls == 2

InputPoints == {P(-1, 0, 0), P(1, 0, 0), P(0, 2, -1)}

InputVerts == UNION {[1..n -> InputPoints] : n \in 0..MaxVerts}


ObjName(k) == CASE k = 1 -> "o1" [] k = 2 -> "o2" [] k = 3 -> "o3" [] OTHER -> "o4"

\* Meshes at the origin, moved and doubled meshes of at most one vertex, and
\* an object that is not a mesh.
InputObjects ==
    {Obj("o", "MESH", 0, Origin, R(1), v, "", FALSE) : v \in InputVerts}
    \cup {Obj("o", "MESH", 0, P(1, -1, 0), R(2), v, "", FALSE) :
             v \in {w \in InputVerts : Len(w) <= 1}}
    \cup {Obj("o", "EMPTY", 0, Origin, R(1), <<>>, "", FALSE)}

InputScenes ==
    UNION {{[k \in 1..n |-> [os[k] EXCEPT !.name = ObjName(k)]] :
              os \in [1..n -> InputObjects]} : n \in 0..MaxObjs}

InitBounds ==
    /\ script = "bounds"
    /\ fs = <<>>
    /\ pc = "input"
    /\ idx = 1
    /\ scene \in InputScenes
    /\ dirExists = FALSE
    /\ materials = <<>>
    /\ results = <<>>
    /\ written = <<>>
    /\ log = <<>>
    /\ moments = {}
    /\ bounds = NoBounds
    /\ frame = NoFrame

\* A call of get_model_bounds that also moves and rescales what it measured.
GetModelBoundsMoving ==
    /\ script = "bounds"
    /\ idx <= MaxCalls
    /\ bounds' = get_model_bounds(scene, scene)
    /\ scene' = center_and_scale_model(scene, scene)
    /\ pc' = "get_model_bounds"
    /\ idx' = idx + 1
    /\ UNCHANGED <<script, fs, dirExists, materials, results, written, log,
                   moments, frame>>

\* A call of get_model_bounds(objects) on the objects of the scene.
GetModelBounds ==
    /\ script = "bounds"
    /\ idx <= MaxCalls
    /\ bounds' = get_model_bounds(scene, scene)
    /\ pc' = "get_model_bounds"
    /\ idx' = idx + 1
    /\ UNCHANGED <<script, fs, scene, dirExists, materials, results, written,
                   log, moments, frame>>

\* The bounds and framing values center_and_scale_model computes on the way.
FramedBy(b) ==
    /\ bounds' = b
    /\ frame' = [op |-> "center_and_scale_model"] @@ FrameOf(b)

\* A call of center_and_scale_model(objects) on the objects of the scene.
CenterAndScaleModel ==
    /\ script = "bounds"
    /\ idx <= MaxCalls
    /\ scene' = center_and_scale_model(scene, scene)
    /\ IF scene = <<>>
       THEN UNCHANGED <<bounds, frame>>
       ELSE FramedBy(AnimalBounds(scene, scene))
    /\ pc' = "center_and_scale_model"
    /\ idx' = idx + 1
    /\ UNCHANGED <<script, fs, dirExists, materials, results, written, log,
                   moments>>

NextBounds ==
    \/ GetModelBounds
    \/ CenterAndScaleModel

SpecBounds == InitBounds /\ [][NextBounds]_vars

----------------------------------------------------------------------------
(* The material setup functions on their own: materials as the importer
   builds them, on meshes that use, share or lack them *)

InputTextures ==
    {<<>>, <<"Base Color">>, <<"Normal">>, <<"Emission">>,
     <<"Base Color", "Normal">>, <<"Normal", "Base Color">>,
     <<"Base Color", "Base Color">>}

InputMaterials == {ImportedMaterial("Fur", t) : t \in InputTextures}

MaterialScenes ==
    LET mesh(name, mats, vcols) ==
            [Obj(name, "MESH", 0, Origin, R(1), <<>>, "", FALSE)
                EXCEPT !.mats = mats, !.vcols = vcols]
    IN  { <<mesh("o1", <<"Fur">>, <<"Col">>)>>,
          <<mesh("o1", <<"Fur">>, <<"Col">>), mesh("o2", <<"Fur">>, <<"Color">>)>>,
          <<mesh("o1", <<>>, <<"Col">>)>>,
          <<mesh("o1", <<"Fur">>, <<>>)>>,
          <<mesh("o1", <<"Fur">>, <<"Col">>), mesh("o2", <<>>, <<"Col">>)>> }

InitMaterial ==
    /\ script = "materials"
    /\ fs = <<>>
    /\ pc = "input"
    /\ idx = 1
    /\ scene \in MaterialScenes
    /\ dirExists = FALSE
    /\ materials \in {<<m>> : m \in InputMaterials}
    /\ results = <<>>
    /\ written = <<>>
    /\ log = <<>>
    /\ moments = {}
    /\ bounds = NoBounds
    /\ frame = NoFrame

\* A call of setup_vertex_colors_material() with every object selected.
SetupVertexColorsMaterial ==
    /\ script = "materials"
    /\ idx <= MaxCalls
    /\ scene' = setup_vertex_colors_material(1, scene, materials).scene
    /\ materials' = setup_vertex_colors_material(1, scene, materials).materials
    /\ pc' = "setup_vertex_colors_material"
    /\ idx' = idx + 1
    /\ UNCHANGED <<script, fs, dirExists, results, written, log, moments,
                   bounds, frame>>

\* A call of setup_material_vertex_color(mat, mesh_obj) on one material.
SetupMaterialVertexColor ==
    /\ script = "materials"
    /\ idx <= MaxCalls
    /\ \E k \in 1..Len(materials) :
          materials' = SetMaterial(materials,
                                   setup_material_vertex_color(materials[k]))
    /\ pc' = "setup_material_vertex_color"
    /\ idx' = idx + 1
    /\ UNCHANGED <<script, fs, scene, dirExists, results, written, log,
                   moments, bounds, frame>>

NextMaterial ==
    \/ SetupVertexColorsMaterial
    \/ SetupMaterialVertexColor

SpecMaterial == InitMaterial /\ [][NextMaterial]_vars

----------------------------------------------------------------------------
(* Properties of the framing functions, checked under SpecBounds *)

\* b is the component-wise minimum and maximum of the non-empty pts.
IsMinMaxOf(b, pts) ==
    /\ \A i \in Axes :
         /\ FLe(b[1][i], b[2][i])
         /\ \E k \in 1..Len(pts) : pts[k][i] = b[1][i]
         /\ \E k \in 1..Len(pts) : pts[k][i] = b[2][i]
         /\ \A k \in 1..Len(pts) : FLe(b[1][i], pts[k][i]) /\ FLe(pts[k][i], b[2][i])
    /\ Len(pts) = 1 => b = <<pts[1], pts[1]>>

\* C1: for every non-empty sequence of world-space points the bounds
\* computation returns the component-wise minimum and maximum: on every axis
\* min <= max, each is a coordinate of some input point, and a single point
\* p gives (p, p).  Stated for get_model_bounds (the points of the scene it
\* leaves unchanged) and for the bounds loop of center_and_scale_model (the
\* corners of the scene before it moves the objects).
C1_BoundsAreMinMax ==
    [][ /\ (pc' = "get_model_bounds" /\ AllFarmerPoints(scene', scene') # <<>>)
           => IsMinMaxOf(bounds', AllFarmerPoints(scene', scene'))
        /\ (pc' = "center_and_scale_model" /\ scene # <<>>)
           => IsMinMaxOf(bounds', AllAnimalPoints(scene, scene)) ]_vars

\* get_model_bounds ran on points whose minimum and maximum corners are
\* assembled from different points.
C1_Witness ==
    /\ pc = "get_model_bounds"
    /\ Len(AllFarmerPoints(scene, scene)) >= 2
    /\ \A k \in 1..Len(AllFarmerPoints(scene, scene)) :
         /\ AllFarmerPoints(scene, scene)[k] # bounds[1]
         /\ AllFarmerPoints(scene, scene)[k] # bounds[2]

\* C2: the bounds computation on an empty sequence of points returns the
\* sentinel pair, +inf in every coordinate of min and -inf in every
\* coordinate of max.
C2_EmptyGivesSentinel ==
    (pc = "get_model_bounds" /\ AllFarmerPoints(scene, scene) = <<>>)
        => bounds = << <<Inf, Inf, Inf>>, <<NegInf, NegInf, NegInf>> >>

\* get_model_bounds ran on an empty object list.
C2_Witness ==
    /\ pc = "get_model_bounds"
    /\ scene = <<>>
    /\ bounds # NoBounds

\* The bounds have extent 0 on every axis.
ZeroExtent(b) == \A i \in Axes : FSub(b[2][i], b[1][i]) = R(0)

\* C3: when the bounds have extent 0 on every axis the center-and-scale
\* computation returns scale = 1 and center equal to that point; it never
\* divides by zero and the scale is never infinite or undefined.
C3_ZeroExtentUnscaled ==
    (pc = "center_and_scale_model" /\ scene # <<>>)
        => /\ ~frame.zero_division
           /\ IsFinite(frame.scale_factor)
           /\ ZeroExtent(bounds) =>
                 /\ frame.scale_factor = R(1)
                 /\ frame.center = bounds[1]

\* center_and_scale_model ran on geometry that is a single point.
C3_Witness ==
    /\ pc = "center_and_scale_model"
    /\ scene # <<>>
    /\ ZeroExtent(bounds)
    /\ frame.size = R(0)
    /\ frame.scale_factor = R(1)

\* The largest axis span of the bounds b is e.
IsExtentOf(e, b) ==
    /\ \E i \in Axes : FSub(b[2][i], b[1][i]) = e
    /\ \A i \in Axes : FLe(FSub(b[2][i], b[1][i]), e)

\* The dominant axis of the bounds b spans [-1, 1].
DominantSpansUnit(b) ==
    \E i \in Axes : /\ b[1][i] = R(-1) /\ b[2][i] = R(1)
                    /\ IsExtentOf(R(2), b)

\* C4 as stated: the target is the caller's, and with target 2.0 bounds
\* spanning [-1, 1] on the dominant axis give scale 1.0.
C4_Original ==
    (pc = "center_and_scale_model" /\ scene # <<>> /\ DominantSpansUnit(bounds))
        => frame.scale_factor = R(1)

\* C4 (amended): for bounds with positive extent center[i] is
\* (min[i] + max[i]) / 2 on every axis and scale * extent is the fixed
\* target 1.8, extent being the largest axis span; bounds spanning [-1, 1]
\* on the dominant axis give scale 0.9.
C4_CenterAndScale ==
    (pc = "center_and_scale_model" /\ scene # <<>> /\ FLt(R(0), frame.size))
        => /\ \A i \in Axes :
                FAdd(frame.center[i], frame.center[i]) = FAdd(bounds[1][i], bounds[2][i])
           /\ IsExtentOf(frame.size, bounds)
           /\ FMul(frame.scale_factor, frame.size) = <<9, 5>>
           /\ DominantSpansUnit(bounds) => frame.scale_factor = <<9, 10>>

\* center_and_scale_model ran on bounds spanning [-1, 1] on the dominant axis.
C4_Witness ==
    /\ pc = "center_and_scale_model"
    /\ scene # <<>>
    /\ DominantSpansUnit(bounds)
    /\ frame.scale_factor = <<9, 10>>

----------------------------------------------------------------------------
(* Properties of the batch runs, checked under Spec *)

Assets == 1..NumAssets(script)

\* The source file of asset a is absent.
Absent(a) == IF script = "export" THEN fs[a].fbx = "absent" ELSE fs[a] = "absent"

\* What the import of asset a's source file brings in.
FileOf(a) ==
    CASE script = "animal"  -> AnimalFile(fs[a], a)
      [] script = "farmer"  -> FarmerFile(fs[a], a)
      [] script = "convert" -> ConvertFile(fs[a], a)
      [] script = "export"  -> FbxFile(fs[a].fbx, a)

\* The source file of asset a is present but holds no mesh object.
Meshless(a) == ~Absent(a) /\ \A k \in 1..Len(FileOf(a)) : FileOf(a)[k].type # "MESH"

AbsentAssets == {a \in Assets : Absent(a)}
MeshlessAssets == {a \in Assets : Meshless(a)}

WrittenAssets == {written[k].asset : k \in 1..Len(written)}

Imported(a) == \E m \in moments : m.asset = a /\ m.what = "import"

Logged(a) == \E k \in 1..Len(log) : log[k].asset = a

ValidClips(a) == {k \in 1..NUM_ANIMATIONS : fs[a].clips[k] \in {"anim", "skin"}}

RECURSIVE ClipNames(_, _)
ClipNames(a, k) ==
    IF k > NUM_ANIMATIONS THEN <<>>
    ELSE (IF k \in ValidClips(a) THEN <<ANIM_NAMES[k]>> ELSE <<>>) \o ClipNames(a, k + 1)

\* process_character was called for character a.
Handled(a) == script = "export" /\ a < idx

\* C6: in the farmer export a failure while importing one clip is caught for
\* that clip only: the remaining clips are still imported, the export step
\* is reached and succeeds, and the exported character carries every valid
\* clip.
C6_ClipFailureIsolated ==
    \A a \in Assets :
        (Handled(a) /\ fs[a].fbx = "ok")
            => /\ \E k \in 1..Len(written) :
                    /\ written[k].asset = a
                    /\ written[k].tracks = ClipNames(a, 1)
               /\ (\E c \in 1..NUM_ANIMATIONS : fs[a].clips[c] = "invalid") => Logged(a)

\* A character with an invalid idle clip and a valid walk clip was exported
\* with the walk track.
C6_Witness ==
    /\ script = "export"
    /\ idx > 1
    /\ fs[1].fbx = "ok"
    /\ fs[1].clips = <<"invalid", "anim">>
    /\ Len(written) >= 1
    /\ written[1].asset = 1
    /\ written[1].tracks = <<"walk">>
    /\ Logged(1)

\* The batch loop has ended, normally or by an escaping exception.
RunOver == pc \in {"summary", "done", "aborted"}

\* C7: in every batch script an asset whose source file is missing is logged
\* and skipped without aborting the run: every asset with a present source
\* file is still processed.
C7_MissingFileSkipped ==
    RunOver => \A a \in Assets : /\ Absent(a) => Logged(a)
                                 /\ ~Absent(a) => Imported(a)

\* A required scene element of asset a is missing after its import.
MissingElement(a) ==
    /\ ~Absent(a)
    /\ CASE script \in {"animal", "farmer"} -> Meshless(a)
         [] script = "export" ->
               \/ \A k \in 1..Len(FileOf(a)) : FileOf(a)[k].type # "ARMATURE"
               \/ \A k \in 1..Len(FileOf(a)) :
                     ~(FileOf(a)[k].type = "MESH"
                       /\ NameContains(FileOf(a)[k].name, MeshName(a)))
         [] OTHER -> FALSE

\* C8: when a required scene element is missing after import (no armature,
\* no mesh of the expected name, no mesh object imported) the asset is
\* logged as an error and skipped: no export or render output is written
\* for it.
C8_MissingElementSkipped ==
    \A a \in Assets :
        (a < idx /\ Imported(a) /\ MissingElement(a))
            => /\ \E k \in 1..Len(log) : log[k] = LogLine(a, "ERROR")
               /\ a \notin WrittenAssets

\* The export imported a character whose mesh has another name, logged it
\* and wrote nothing for it.
C8_Witness ==
    /\ script = "export"
    /\ idx > 1
    /\ fs[1].fbx = "othermesh"
    /\ Imported(1)
    /\ Logged(1)
    /\ written = <<>>

\* Every component of the vector is an ordinary number.
FiniteVec(v) == \A i \in Axes : IsFinite(v[i])

\* C9: whenever the bounds computation observed no point at all the caller
\* skips the downstream framing and does no arithmetic on the sentinel
\* values: no framing value and no object location derives from them, and
\* nothing is rendered with them.
C9_SentinelSkipsFraming ==
    /\ frame.op = "render_farmer"
          => /\ IsFinite(frame.height)
             /\ IsFinite(frame.center_x)
             /\ IsFinite(frame.center_z)
             /\ IsFinite(frame.portrait_center_z)
    /\ \A k \in 1..Len(scene) : FiniteVec(scene[k].loc)

\* C10: assets are processed one after another, each behind a cleared
\* scene: at the moment an asset is imported and at the moment it is
\* exported or rendered the scene holds no object imported or created for
\* a previously processed asset.
C10_NoLeftoverObjects ==
    \A m \in moments : m.owners \cap (Assets \ {m.asset}) = {}

\* The second animal was rendered after the first was imported and failed
\* for want of a mesh.
C10_Witness ==
    /\ script = "animal"
    /\ fs[1] = "nomesh"
    /\ \E m \in moments : m.asset = 1 /\ m.what = "import"
    /\ \E m \in moments : m.asset = 2 /\ m.what = "output" /\ m.owners = {2}

----------------------------------------------------------------------------
(* Further properties of the framing functions and of the runs *)

C12_DirBeforeWrite ==
    /\ \A k \in 1..Len(written) : written[k].dir
    /\ pc # "start" => dirExists

\* The conversion wrote its first file into the directory it had created.
C12_Witness ==
    /\ script = "convert"
    /\ Len(written) >= 1
    /\ written[1].dir
    /\ dirExists

\* C13: after center_and_scale_model ran on a non-empty list of mesh objects
\* with positive extent, the recomputed combined world-space bounding box
\* has its center at the origin on every axis and its largest axis extent
\* equal to the target size 1.8.
C13_CenteredAndFits ==
    (/\ pc = "center_and_scale_model"
     /\ scene # <<>>
     /\ \A k \in 1..Len(scene) : scene[k].type = "MESH"
     /\ FLt(R(0), frame.size))
        => /\ \A i \in Axes :
                FAdd(AnimalBounds(scene, scene)[1][i],
                     AnimalBounds(scene, scene)[2][i]) = R(0)
           /\ IsExtentOf(<<9, 5>>, AnimalBounds(scene, scene))

\* C14: after render_farmer's X-centering step the midpoint of the posed
\* model's world-space X bounds over all collected meshes is 0, with an
\* armature (only the armature is moved) and without one (each mesh is
\* moved), meshes that are not children of the armature included.
C14_CenteredOnX ==
    (/\ script = "farmer"
     /\ idx > 1
     /\ Len(results) = idx - 1
     /\ results[idx - 1][2]
     /\ FiniteVec(bounds[1])
     /\ FiniteVec(bounds[2]))
        => FAdd(get_model_bounds(SelectSeq(scene, IsMesh), scene)[1][1],
                get_model_bounds(SelectSeq(scene, IsMesh), scene)[2][1]) = R(0)

\* C15: in the farmer export the object removed after a clip import is never
\* the character's own armature or mesh: whatever the clip imports did
\* (succeeded, failed, imported nothing), the export step finds the armature
\* and the mesh of the initial import in the scene and exports both.
C15_CharacterSurvivesClips ==
    \A a \in Assets :
        (Handled(a) /\ fs[a].fbx = "ok")
            => \E k \in 1..Len(written) :
                  /\ written[k].asset = a
                  /\ written[k].objs = {"Armature", MeshName(a)}

\* A character whose clips succeeded and imported nothing, in turn, was
\* exported with its armature and its mesh.
C15_Witness ==
    /\ script = "export"
    /\ idx > 2
    /\ fs[1].fbx = "ok"
    /\ fs[1].clips = <<"skin", "empty">>
    /\ fs[2].fbx = "ok"
    /\ fs[2].clips = <<"invalid", "anim">>
    /\ Len(written) = 2
    /\ written[1].objs = {"Armature", MeshName(1)}
    /\ written[2].objs = {"Armature", MeshName(2)}

\* The character handled last, whose scene is the current one.
JustExported(a) ==
    /\ script = "export"
    /\ a = idx - 1
    /\ a \in Assets
    /\ fs[a].fbx = "ok"

\* The NLA tracks of the character's armature in the scene.
TracksInScene == Last(SelectSeq(scene, LAMBDA o : o.name = "Armature")).tracks

\* The names of the objects in the scene that a clip import brought in.
ClipObjectsInScene ==
    {scene[j].name : j \in 1..Len(scene)}
        \cap UNION {{ClipArmName(k), ClipMeshName(k)} : k \in 1..NUM_ANIMATIONS}

RECURSIVE NamesOfClips(_, _, _)
NamesOfClips(a, k, kinds) ==
    IF k > NUM_ANIMATIONS THEN <<>>
    ELSE (IF fs[a].clips[k] \in kinds THEN <<ANIM_NAMES[k]>> ELSE <<>>)
             \o NamesOfClips(a, k + 1, kinds)

\* C16 as stated: after the animation loop the armature has exactly one NLA
\* track per clip whose import succeeded, named after the clip and in clip
\* order, none for a failed clip, and no object imported for a clip remains
\* in the scene.
C16_Original ==
    \A a \in Assets :
        JustExported(a)
            => /\ TracksInScene = NamesOfClips(a, 1, {"anim", "noaction", "skin"})
               /\ ClipObjectsInScene = {}

\* C16: after the animation loop the armature has exactly one NLA track per
\* clip whose import succeeded and whose first selected object carries an
\* action, named after the clip and in clip order, and no track for any
\* other clip; of the objects a clip import brought in only the first
\* selected one is removed, the others remain in the scene.
C16_TracksPerClipWithAction ==
    \A a \in Assets :
        JustExported(a)
            => /\ TracksInScene = NamesOfClips(a, 1, {"anim", "skin"})
               /\ ClipObjectsInScene =
                    {ClipMeshName(k) : k \in {c \in 1..NUM_ANIMATIONS :
                                                 fs[a].clips[c] = "skin"}}

\* A character with two animated clips, the second one with a mesh, carries
\* both tracks in clip order and the clip's mesh is still in the scene.
C16_Witness ==
    /\ JustExported(1)
    /\ fs[1].clips = <<"anim", "skin">>
    /\ TracksInScene = <<"idle", "walk">>
    /\ ClipObjectsInScene = {ClipMeshName(2)}

\* The node tree is exactly a colour source feeding the Base Color of a
\* Principled BSDF that feeds the Surface of a Material Output.
Canonical(mat) ==
    /\ mat.tree
    /\ Len(mat.nodes) = 3
    /\ \E o, b, c \in 1..3 :
          /\ mat.nodes[o].type = "OUTPUT_MATERIAL"
          /\ mat.nodes[b].type = "BSDF_PRINCIPLED"
          /\ mat.nodes[c].type \in {"VERTEX_COLOR", "ATTRIBUTE"}
          /\ mat.links =
                {[from |-> mat.nodes[c].id, out |-> "Color",
                  to |-> mat.nodes[b].id, in |-> "Base Color"],
                 [from |-> mat.nodes[b].id, out |-> "BSDF",
                  to |-> mat.nodes[o].id, in |-> "Surface"]}

\* C17: the vertex-colour material setup is idempotent: after it is applied
\* to a material once or any number of times (a material shared by several
\* meshes included) the material's node tree has exactly one output node,
\* one Principled BSDF node and one colour-source node, linked colour ->
\* Base Color and BSDF -> Surface, and no other node or link.
C17_SetupIdempotent ==
    [][ pc' \in {"setup_vertex_colors_material", "setup_material_vertex_color"}
          => \A k \in 1..Len(materials') :
                (k > Len(materials) \/ materials'[k] # materials[k])
                    => Canonical(materials'[k]) ]_vars

\* A textured material shared by two meshes was set up twice by each of two
\* calls, or by one call after a setup of the other script.
C17_Witness ==
    /\ pc = "setup_vertex_colors_material"
    /\ idx = 3
    /\ Len(scene) = 2
    /\ scene[1].mats = scene[2].mats
    /\ materials[1].next >= 12
    /\ Canonical(materials[1])

====
